---- MODULE Spec2Model ----
(***************************************************************************)
(* A model of one process run of the spores command-line client            *)
(* (src/src/main.rs): argument dispatch, configuration loading, token      *)
(* acquisition, the remote calls of each subcommand and what is printed.   *)
(* Every network call is two steps, its start and its return, so that the  *)
(* code between two suspension points is one action.                       *)
(***************************************************************************)
EXTENDS Integers, Sequences, FiniteSets, TLC

\* ------------------------------------------------------------------------
\* Bounds
\* ------------------------------------------------------------------------
MaxIds == 3          \* longest list of id arguments
MaxItems == 2        \* most items in one response page
MaxPages == 3        \* most pages the remote side serves for one listing
MaxAnswerLen == 2    \* longest line typed at a configure prompt

\* ------------------------------------------------------------------------
\* Program constants
\* ------------------------------------------------------------------------
EXIT_FAILURE == 1
PANIC_EXIT == 101
PAGE_LIMIT == 50
SEARCH_LIMIT == 20

\* ------------------------------------------------------------------------
\* Strings of the configuration domain are sequences of characters
\* ------------------------------------------------------------------------
Quote == "\""
Chars == {"a", " ", Quote}
Whitespace == {" "}

StrUpTo(n) == UNION {[1..k -> Chars] : k \in 0..n}

None == [some |-> FALSE, val |-> <<>>]
Some(v) == [some |-> TRUE, val |-> v]

DEFAULT_REDIRECT == <<"http://127.0.0.1:8888/callback">>

RECURSIVE TrimStart(_)
TrimStart(s) ==
    IF s # <<>> /\ Head(s) \in Whitespace THEN TrimStart(Tail(s)) ELSE s

RECURSIVE TrimEnd(_)
TrimEnd(s) ==
    IF s # <<>> /\ s[Len(s)] \in Whitespace
    THEN TrimEnd(SubSeq(s, 1, Len(s) - 1))
    ELSE s

Trim(s) == TrimEnd(TrimStart(s))

\* As prompt, but the default is never taken.
promptIgnoresDefault(answer, default) == Trim(answer)

\* prompt(): the typed line trimmed, or the default when that is empty.
prompt(answer, default) ==
    LET trimmed == Trim(answer) IN
    IF trimmed = <<>>
    THEN (IF default.some THEN default.val ELSE <<>>)
    ELSE trimmed

\* ------------------------------------------------------------------------
\* The configuration file: absent, text that is no AppConfig, or the three
\* fields as they stand between the quotes of the file.
\* ------------------------------------------------------------------------
MissingFile ==
    [kind |-> "missing", client_id |-> <<>>, client_secret |-> <<>>,
     redirect_uri |-> None]
GarbageFile ==
    [kind |-> "garbage", client_id |-> <<>>, client_secret |-> <<>>,
     redirect_uri |-> None]
TomlFile(id, secret, redirect) ==
    [kind |-> "toml", client_id |-> id, client_secret |-> secret,
     redirect_uri |-> redirect]

\* The template load_config writes: both credentials empty, the redirect
\* URI only in a comment.
TemplateFile == TomlFile(<<>>, <<>>, None)

\* The file cmd_configure writes: the three answers between quotes.
FormatConfig(client_id, client_secret, redirect_uri) ==
    TomlFile(client_id, client_secret, Some(redirect_uri))

HasQuote(s) == \E i \in 1..Len(s) : s[i] = Quote

\* toml::from_str into AppConfig: a quote inside a quoted value ends the
\* value early and the rest of the line is a syntax error.
ParseConfig(f) ==
    IF /\ f.kind = "toml"
       /\ ~HasQuote(f.client_id)
       /\ ~HasQuote(f.client_secret)
       /\ ~(f.redirect_uri.some /\ HasQuote(f.redirect_uri.val))
    THEN [ok |-> TRUE,
          config |-> [client_id |-> f.client_id,
                      client_secret |-> f.client_secret,
                      redirect_uri |-> f.redirect_uri]]
    ELSE [ok |-> FALSE,
          config |-> [client_id |-> <<>>, client_secret |-> <<>>,
                      redirect_uri |-> None]]

NoConfig == [client_id |-> <<>>, client_secret |-> <<>>, redirect_uri |-> None]

FileExists(f) == f.kind # "missing"

\* ------------------------------------------------------------------------
\* Command line
\* ------------------------------------------------------------------------
Commands ==
    {"search", "playlist_list", "playlist_create", "playlist_info",
     "playlist_add", "save", "configure"}

ItemType == {"track", "album", "artist", "playlist"}

\* Id arguments: a bare id or a spotify:<type>:<id> URI, well formed or not.
BareId == [form |-> "bare", ty |-> "none", ok |-> TRUE, name |-> "id1"]
TrackUri == [form |-> "uri", ty |-> "track", ok |-> TRUE, name |-> "id2"]
PlaylistUri == [form |-> "uri", ty |-> "playlist", ok |-> TRUE, name |-> "id3"]
BadId == [form |-> "bare", ty |-> "none", ok |-> FALSE, name |-> "id!"]
IdStrings == {BareId, TrackUri, PlaylistUri, BadId}

IdLists == UNION {[1..k -> IdStrings] : k \in 1..MaxIds}

\* <T>Id::from_id_or_uri: a URI must carry the type T, a bare id must be
\* alphanumeric.
from_id_or_uri(ty, s) ==
    IF s.form = "uri" THEN s.ok /\ s.ty = ty ELSE s.ok

AllValid(ty, list) == \A i \in 1..Len(list) : from_id_or_uri(ty, list[i])

to_search_type(t) == t

\* ------------------------------------------------------------------------
\* Standard output
\* ------------------------------------------------------------------------
Text(s) == [kind |-> "text", body |-> s]
Json(v) == [kind |-> "json", body |-> v]
print_json(out, v) == Append(out, Json(v))


\* ------------------------------------------------------------------------
\* What the remote side can answer
\* ------------------------------------------------------------------------
NoneStr == [some |-> FALSE, val |-> ""]
SomeStr(v) == [some |-> TRUE, val |-> v]
NoneBool == [some |-> FALSE, val |-> FALSE]
SomeBool(b) == [some |-> TRUE, val |-> b]

SeqUpTo(S, n) == UNION {[1..k -> S] : k \in 0..n}

\* FullTrack, as far as cmd_search and cmd_playlist_info read it.
TrackItems ==
    {[id |-> SomeStr("spotify:track:t1"), name |-> "song1",
      artists |-> <<"artist1">>, album |-> "album1"],
     [id |-> NoneStr, name |-> "song2",
      artists |-> <<"artist1", "artist2">>, album |-> "album2"]}

\* SimplifiedAlbum / FullArtist, as far as cmd_search reads them.
NamedItems ==
    {[id |-> "x1", name |-> "name1"], [id |-> "x2", name |-> "name2"]}

\* SimplifiedPlaylist.
PlaylistItems ==
    {[id |-> "spotify:playlist:p1", name |-> "list1",
      public |-> SomeBool(TRUE), owner |-> SomeStr("owner1")],
     [id |-> "spotify:playlist:p2", name |-> "list2",
      public |-> NoneBool, owner |-> NoneStr]}

\* PlaylistItem.track: absent, a track, an episode.
PlayableItems ==
    {[kind |-> "none", name |-> ""],
     [kind |-> "track", name |-> "song1"],
     [kind |-> "episode", name |-> "episode1"]}

SearchVariant(t) ==
    CASE t = "track" -> "tracks"
      [] t = "album" -> "albums"
      [] t = "artist" -> "artists"
      [] t = "playlist" -> "playlists"

ItemsOf(variant) ==
    CASE variant = "tracks" -> TrackItems
      [] variant = "playlists" -> PlaylistItems
      [] variant \in {"albums", "artists"} -> NamedItems
      [] OTHER -> {}

unwrap_or(opt, d) == IF opt.some THEN opt.val ELSE d

\* The closure cmd_search maps over page.items, per SearchResult variant.
SearchItemJson(variant, item) ==
    CASE variant = "tracks" ->
            [id |-> item.id, name |-> item.name, artists |-> item.artists,
             album |-> item.album]
      [] variant = "playlists" ->
            [id |-> item.id, name |-> item.name,
             owner |-> unwrap_or(item.owner, "unknown")]
      [] OTHER -> [id |-> item.id, name |-> item.name]

\* As SearchItemsJson, but a track without an id is left out.
SearchItemsJsonSkipsIdless(variant, items) ==
    LET Keep(item) == variant # "tracks" \/ item.id.some
        kept == SelectSeq(items, Keep)
    IN [i \in 1..Len(kept) |-> SearchItemJson(variant, kept[i])]

\* page.items.iter().map(..).collect()
SearchItemsJson(variant, items) ==
    [i \in 1..Len(items) |-> SearchItemJson(variant, items[i])]

\* What cmd_search prints for a result.
SearchJson(result) ==
    IF result.variant = "other"
    THEN [error |-> "unsupported search type"]
    ELSE [query |-> "query",
          type |-> CHOOSE t \in ItemType : SearchVariant(t) = result.variant,
          total |-> result.total,
          items |-> SearchItemsJson(result.variant, result.items)]

\* The playlists.push(json!{..}) of cmd_playlist_list, over one page.
PlaylistsJson(items) ==
    [i \in 1..Len(items) |->
        [id |-> items[i].id, name |-> items[i].name,
         public |-> unwrap_or(items[i].public, FALSE),
         owner |-> unwrap_or(items[i].owner, "unknown")]]

\* The filter_map of cmd_playlist_info: items without a track are dropped.
RECURSIVE PlaylistTracksJson(_)
PlaylistTracksJson(items) ==
    IF items = <<>> THEN <<>>
    ELSE IF Head(items).kind = "none" THEN PlaylistTracksJson(Tail(items))
    ELSE <<[type |-> Head(items).kind, name |-> Head(items).name]>>
             \o PlaylistTracksJson(Tail(items))

\* As SaveLoopDone, but the loop is left after its first turn.
SaveLoopDoneAfterFirst(i, list) == i > 1

\* `for id in ids` of cmd_save is over once every id has been visited.
SaveLoopDone(i, list) == i > Len(list)

\* As ListDone, but an empty page also ends the listing.
ListDoneOnEmptyPage(page) == ~page.next \/ page.items = <<>>

\* page.next.is_none() of cmd_playlist_list
ListDone(page) == ~page.next

\* As ValidateAll, but only the first id is looked at.
ValidateFirstOnly(ty, list) == from_id_or_uri(ty, list[1])

\* ids.iter().map(|id| T::from_id_or_uri(id).unwrap()).collect()
ValidateAll(ty, list) == AllValid(ty, list)

\* How many ids the map above parses: all, or up to the first invalid one.
ParsedCount(ty, list) ==
    IF AllValid(ty, list) THEN Len(list)
    ELSE CHOOSE i \in 1..Len(list) :
            /\ ~from_id_or_uri(ty, list[i])
            /\ \A j \in 1..(i - 1) : from_id_or_uri(ty, list[j])

\* As ShouldWriteTemplate, but a file without a client id is rewritten too.
ShouldWriteTemplateAlsoIfBlank(f) == ~FileExists(f) \/ f.client_id = <<>>

\* As CredentialsMissing, but one credential is enough.
CredentialsBothMissing(config) ==
    config.client_id = <<>> /\ config.client_secret = <<>>

\* load_config's tests
ShouldWriteTemplate(f) == ~FileExists(f)
CredentialsMissing(config) ==
    config.client_id = <<>> \/ config.client_secret = <<>>

\* As MainTarget, but the other commands skip authentication as well.
MainTargetNoAuth(c) == IF c = "configure" THEN "cmd_configure" ELSE "dispatch"

\* main: configure bypasses authentication
MainTarget(c) == IF c = "configure" THEN "cmd_configure" ELSE "authenticate"

\* ------------------------------------------------------------------------
\* State
\* ------------------------------------------------------------------------
VARIABLES
    command,      \* the subcommand given on the command line
    item_type,    \* --type
    ids,          \* the id arguments (save) or track arguments (playlist add)
    playlist,     \* the playlist argument (playlist info / add)
    cfg_file0,    \* the configuration file as the run found it
    cfg_file,     \* the configuration file
    token_cache,  \* the token cache file: "valid" or "absent"
    pc,           \* where the process is
    exit_code,    \* exit status, meaningful once pc = "exited"
    stdout,       \* what has been printed to standard output
    app,          \* the AppConfig load_config returned
    calls,        \* API requests started so far, in order
    token_calls,  \* token requests started so far
    outstanding,  \* network calls started and not yet returned
    failures,     \* unwraps that met an error
    cfg_reads,    \* reads of the configuration file's contents
    cfg_writes,   \* who wrote the configuration file, in order
    id_parses,    \* id arguments parsed so far
    offset,       \* cmd_playlist_list's offset
    playlists,    \* cmd_playlist_list's accumulated entries
    pages,        \* the pages the remote side returned, in order
    idx,          \* cmd_save's position in ids (playlist loop), from 1
    followed,     \* playlists whose follow call succeeded, in order
    saved,        \* ids the library-save call stored
    response,     \* the search result the remote side returned
    typed         \* the lines typed at cmd_configure's prompts

\* What the run is given: the command line, the file it finds, the lines
\* typed.  Only cmd_configure reads lines.
cli == <<command, item_type, ids, playlist, cfg_file0>>
args == <<cli, typed>>
cfgVars == <<cfg_file, cfg_reads, cfg_writes, app>>
netVars == <<token_cache, token_calls, calls, outstanding>>
listVars == <<offset, playlists, pages>>
saveVars == <<idx, followed, saved>>

vars ==
    <<command, item_type, ids, playlist, cfg_file0, cfg_file, token_cache,
      pc, exit_code, stdout, app, calls, token_calls, outstanding, failures,
      cfg_reads, cfg_writes, id_parses, offset, playlists, pages, idx,
      followed, saved, response, typed>>

NoResponse == [variant |-> "none", items |-> <<>>, total |-> 0]

\* Configuration files a run can find: none, unparseable text, or a file
\* with each field empty or set.
InitialFiles ==
    {MissingFile, GarbageFile}
    \cup {TomlFile(i, s, r) :
            i \in {<<>>, <<"a">>}, s \in {<<>>, <<"a">>},
            r \in {None, Some(<<"a">>)}}

\* The command lines clap accepts (ids and tracks are required = true).
CommandLines ==
    {[command |-> "search", item_type |-> t, ids |-> <<>>, playlist |-> BareId] :
        t \in ItemType}
    \cup {[command |-> c, item_type |-> "track", ids |-> <<>>, playlist |-> BareId] :
        c \in {"playlist_list", "playlist_create", "configure"}}
    \cup {[command |-> "playlist_info", item_type |-> "track", ids |-> <<>>,
           playlist |-> p] : p \in IdStrings}
    \cup {[command |-> "playlist_add", item_type |-> "track", ids |-> l,
           playlist |-> p] : p \in IdStrings, l \in IdLists}
    \cup {[command |-> "save", item_type |-> t, ids |-> l, playlist |-> BareId] :
        t \in ItemType, l \in IdLists}

Init ==
    /\ \E cl \in CommandLines :
        /\ command = cl.command
        /\ item_type = cl.item_type
        /\ ids = cl.ids
        /\ playlist = cl.playlist
    /\ cfg_file0 \in InitialFiles
    /\ cfg_file = cfg_file0
    /\ token_cache \in {"valid", "absent"}
    /\ pc = "main"
    /\ exit_code = 0
    /\ stdout = <<>>
    /\ app = NoConfig
    /\ calls = <<>>
    /\ token_calls = 0
    /\ outstanding = 0
    /\ failures = 0
    /\ cfg_reads = 0
    /\ cfg_writes = <<>>
    /\ id_parses = 0
    /\ offset = 0
    /\ playlists = <<>>
    /\ pages = <<>>
    /\ idx = 1
    /\ followed = <<>>
    /\ saved = <<>>
    /\ response = NoResponse
    /\ typed = <<>>

\* ------------------------------------------------------------------------
\* Leaving the process
\* ------------------------------------------------------------------------
\* process::exit(code), or main returning (code 0)
Exit(code) == pc' = "exited" /\ exit_code' = code

\* unwrap()/expect() on an error: the panic unwinds out of main
Panic == Exit(PANIC_EXIT) /\ failures' = failures + 1

Call(endpoint, off, lim, arg) ==
    [endpoint |-> endpoint, offset |-> off, limit |-> lim, arg |-> arg]

StartCall(c) ==
    /\ calls' = Append(calls, c)
    /\ outstanding' = outstanding + 1
    /\ UNCHANGED <<token_cache, token_calls>>

EndCall ==
    /\ outstanding' = outstanding - 1
    /\ UNCHANGED <<token_cache, token_calls, calls>>


\* ------------------------------------------------------------------------
\* main, configure, authenticate
\* ------------------------------------------------------------------------
\* main (609-619): parse the command line, then configure or authenticate.
main ==
    /\ pc = "main"
    /\ pc' = MainTarget(command)
    /\ UNCHANGED <<args, cfgVars, netVars, listVars, saveVars, exit_code,
                   stdout, failures, id_parses, response>>

Answers == StrUpTo(MaxAnswerLen)

PromptText(label, default) == Text(<<label, default>>)

\* cmd_configure (90-152), with the three lines typed at its prompts.
cmd_configure ==
    /\ pc = "cmd_configure"
    /\ \E a1 \in Answers, a2 \in Answers, a3 \in Answers :
        LET existing == IF FileExists(cfg_file)
                        THEN ParseConfig(cfg_file)
                        ELSE [ok |-> FALSE, config |-> NoConfig]
            default_id ==
                IF existing.ok /\ existing.config.client_id # <<>>
                THEN Some(existing.config.client_id) ELSE None
            default_secret ==
                IF existing.ok /\ existing.config.client_secret # <<>>
                THEN Some(existing.config.client_secret) ELSE None
            default_redirect ==
                IF existing.ok /\ existing.config.redirect_uri.some
                THEN existing.config.redirect_uri
                ELSE Some(DEFAULT_REDIRECT)
            client_id == prompt(a1, default_id)
            client_secret == prompt(a2, default_secret)
            redirect_uri == prompt(a3, default_redirect)
            shown == stdout \o <<Text("Spores configuration wizard"),
                                 PromptText("Client ID", default_id),
                                 PromptText("Client secret", default_secret),
                                 PromptText("Redirect URI", default_redirect)>>
        IN
        /\ typed' = <<a1, a2, a3>>
        /\ cfg_reads' = cfg_reads + (IF FileExists(cfg_file) THEN 1 ELSE 0)
        /\ IF client_id = <<>> \/ client_secret = <<>>
           THEN /\ Exit(EXIT_FAILURE)
                /\ stdout' = shown
                /\ UNCHANGED <<cfg_file, cfg_writes>>
           ELSE /\ cfg_file' = FormatConfig(client_id, client_secret, redirect_uri)
                /\ cfg_writes' = Append(cfg_writes, "cmd_configure")
                /\ stdout' = Append(shown, Text("Configuration saved"))
                /\ Exit(0)
    /\ UNCHANGED <<cli, app, netVars, listVars, saveVars, failures,
                   id_parses, response>>

\* load_config (32-68), the first thing authenticate does (270).
load_config ==
    /\ pc = "authenticate"
    /\ IF ShouldWriteTemplate(cfg_file)
       THEN /\ cfg_file' = TemplateFile
            /\ cfg_writes' = Append(cfg_writes, "load_config")
            /\ Exit(EXIT_FAILURE)
            /\ UNCHANGED <<cfg_reads, app, failures>>
       ELSE /\ cfg_reads' = cfg_reads + 1
            /\ UNCHANGED <<cfg_file, cfg_writes>>
            /\ LET parsed == ParseConfig(cfg_file) IN
               IF ~parsed.ok
               THEN Panic /\ UNCHANGED app
               ELSE IF CredentialsMissing(parsed.config)
               THEN Exit(EXIT_FAILURE) /\ UNCHANGED <<app, failures>>
               ELSE /\ app' = parsed.config
                    /\ pc' = "prompt_for_token"
                    /\ UNCHANGED <<exit_code, failures>>
    /\ UNCHANGED <<args, netVars, listVars, saveVars, stdout, id_parses,
                   response>>

\* authenticate (272-300): build the client and ask for a token; a cached
\* token needs no request.
prompt_for_token_call ==
    /\ pc = "prompt_for_token"
    /\ IF token_cache = "valid"
       THEN /\ pc' = "dispatch"
            /\ UNCHANGED <<token_calls, outstanding>>
       ELSE /\ token_calls' = token_calls + 1
            /\ outstanding' = outstanding + 1
            /\ pc' = "await_token"
    /\ UNCHANGED <<args, cfgVars, token_cache, calls, listVars, saveVars,
                   exit_code, stdout, failures, id_parses, response>>

\* authenticate (300-301): the token request returns; unwrap.
prompt_for_token_return ==
    /\ pc = "await_token"
    /\ outstanding' = outstanding - 1
    /\ \/ /\ token_cache' = "valid"
          /\ pc' = "dispatch"
          /\ UNCHANGED <<exit_code, failures>>
       \/ /\ Panic
          /\ UNCHANGED token_cache
    /\ UNCHANGED <<args, cfgVars, token_calls, calls, listVars, saveVars,
                   stdout, id_parses, response>>

\* ------------------------------------------------------------------------
\* search
\* ------------------------------------------------------------------------
\* cmd_search (308-312)
cmd_search_call ==
    /\ pc = "dispatch" /\ command = "search"
    /\ StartCall(Call("search", 0, SEARCH_LIMIT, <<to_search_type(item_type)>>))
    /\ pc' = "await_search"
    /\ UNCHANGED <<args, cfgVars, listVars, saveVars, exit_code, stdout,
                   failures, id_parses, response>>

\* cmd_search (313-410): unwrap the result, reshape it, print it.
cmd_search_return ==
    /\ pc = "await_search"
    /\ EndCall
    /\ \/ Panic /\ UNCHANGED <<stdout, response>>
       \/ \E variant \in {SearchVariant(item_type), "other"} :
          \E items \in SeqUpTo(ItemsOf(variant), MaxItems), more \in {0, 1} :
            LET result == [variant |-> variant, items |-> items,
                           total |-> Len(items) + more] IN
            /\ response' = result
            /\ stdout' = print_json(stdout, SearchJson(result))
            /\ Exit(0)
            /\ UNCHANGED failures
    /\ UNCHANGED <<args, cfgVars, listVars, saveVars, id_parses>>

\* ------------------------------------------------------------------------
\* playlist list
\* ------------------------------------------------------------------------
\* cmd_playlist_list (417-425): top of the loop, request the page at offset.
cmd_playlist_list_call ==
    /\ \/ pc = "dispatch" /\ command = "playlist_list"
       \/ pc = "list_loop"
    /\ StartCall(Call("current_user_playlists", offset, PAGE_LIMIT, <<>>))
    /\ pc' = "await_page"
    /\ UNCHANGED <<args, cfgVars, listVars, saveVars, exit_code, stdout,
                   failures, id_parses, response>>

\* cmd_playlist_list (426-449): unwrap the page, collect its items, stop or
\* advance the offset.  The offset is a u32; it stays below 2^32 for the
\* first 85,899,345 pages, far beyond MaxPages, so the addition is exact here.
cmd_playlist_list_return ==
    /\ pc = "await_page"
    /\ EndCall
    /\ \/ Panic /\ UNCHANGED <<stdout, listVars>>
       \/ \E items \in SeqUpTo(PlaylistItems, MaxItems), next \in BOOLEAN :
            LET page == [items |-> items, next |-> next]
                collected == playlists \o PlaylistsJson(items) IN
            /\ next => Len(pages) + 1 < MaxPages
            /\ pages' = Append(pages, page)
            /\ playlists' = collected
            /\ IF ListDone(page)
               THEN /\ stdout' = print_json(stdout,
                                    [total |-> Len(collected),
                                     playlists |-> collected])
                    /\ Exit(0)
                    /\ UNCHANGED <<offset, failures>>
               ELSE /\ offset' = offset + PAGE_LIMIT
                    /\ pc' = "list_loop"
                    /\ UNCHANGED <<exit_code, stdout, failures>>
    /\ UNCHANGED <<args, cfgVars, saveVars, id_parses, response>>

\* ------------------------------------------------------------------------
\* playlist create
\* ------------------------------------------------------------------------
\* cmd_playlist_create (458)
current_user_call ==
    /\ pc = "dispatch" /\ command = "playlist_create"
    /\ StartCall(Call("current_user", 0, 0, <<>>))
    /\ pc' = "await_user"
    /\ UNCHANGED <<args, cfgVars, listVars, saveVars, exit_code, stdout,
                   failures, id_parses, response>>

\* cmd_playlist_create (458-459): unwrap the user
current_user_return ==
    /\ pc = "await_user"
    /\ EndCall
    /\ \/ Panic
       \/ pc' = "create" /\ UNCHANGED <<exit_code, failures>>
    /\ UNCHANGED <<args, cfgVars, listVars, saveVars, stdout, id_parses,
                   response>>

\* cmd_playlist_create (461-463)
user_playlist_create_call ==
    /\ pc = "create"
    /\ StartCall(Call("user_playlist_create", 0, 0, <<>>))
    /\ pc' = "await_create"
    /\ UNCHANGED <<args, cfgVars, listVars, saveVars, exit_code, stdout,
                   failures, id_parses, response>>

\* cmd_playlist_create (464-472)
user_playlist_create_return ==
    /\ pc = "await_create"
    /\ EndCall
    /\ \/ Panic /\ UNCHANGED stdout
       \/ \E p \in PlaylistItems :
            /\ stdout' = print_json(stdout,
                            [id |-> p.id, name |-> p.name,
                             public |-> unwrap_or(p.public, FALSE)])
            /\ Exit(0)
            /\ UNCHANGED failures
    /\ UNCHANGED <<args, cfgVars, listVars, saveVars, id_parses, response>>

\* ------------------------------------------------------------------------
\* playlist info
\* ------------------------------------------------------------------------
\* cmd_playlist_info (476-477): parse the id, request the playlist.
cmd_playlist_info_call ==
    /\ pc = "dispatch" /\ command = "playlist_info"
    /\ id_parses' = id_parses + 1
    /\ IF from_id_or_uri("playlist", playlist)
       THEN /\ StartCall(Call("playlist", 0, 0, <<playlist>>))
            /\ pc' = "await_info"
            /\ UNCHANGED <<exit_code, failures>>
       ELSE Panic /\ UNCHANGED netVars
    /\ UNCHANGED <<args, cfgVars, listVars, saveVars, stdout, response>>

\* cmd_playlist_info (477-522)
cmd_playlist_info_return ==
    /\ pc = "await_info"
    /\ EndCall
    /\ \/ Panic /\ UNCHANGED stdout
       \/ \E p \in PlaylistItems, items \in SeqUpTo(PlayableItems, MaxItems) :
            /\ stdout' = print_json(stdout,
                            [id |-> p.id, name |-> p.name,
                             owner |-> unwrap_or(p.owner, "unknown"),
                             public |-> unwrap_or(p.public, FALSE),
                             total_tracks |-> Len(items),
                             tracks |-> PlaylistTracksJson(items)])
            /\ Exit(0)
            /\ UNCHANGED failures
    /\ UNCHANGED <<args, cfgVars, listVars, saveVars, id_parses, response>>

\* ------------------------------------------------------------------------
\* playlist add
\* ------------------------------------------------------------------------
\* cmd_playlist_add (526-540): parse the playlist id, then every track id,
\* then request the addition.
cmd_playlist_add_call ==
    /\ pc = "dispatch" /\ command = "playlist_add"
    /\ IF ~from_id_or_uri("playlist", playlist)
       THEN /\ id_parses' = id_parses + 1
            /\ Panic /\ UNCHANGED netVars
       ELSE /\ id_parses' = id_parses + 1 + ParsedCount("track", ids)
            /\ IF ValidateAll("track", ids)
               THEN /\ StartCall(Call("playlist_add_items", 0, 0,
                                      <<playlist>> \o ids))
                    /\ pc' = "await_add"
                    /\ UNCHANGED <<exit_code, failures>>
               ELSE Panic /\ UNCHANGED netVars
    /\ UNCHANGED <<args, cfgVars, listVars, saveVars, stdout, response>>

\* cmd_playlist_add (541-547)
cmd_playlist_add_return ==
    /\ pc = "await_add"
    /\ EndCall
    /\ \/ Panic /\ UNCHANGED stdout
       \/ /\ stdout' = print_json(stdout,
                          [playlist |-> playlist, added |-> Len(ids),
                           snapshot_id |-> "snapshot"])
          /\ Exit(0)
          /\ UNCHANGED failures
    /\ UNCHANGED <<args, cfgVars, listVars, saveVars, id_parses, response>>

\* ------------------------------------------------------------------------
\* save
\* ------------------------------------------------------------------------
SaveEndpoint(t) ==
    IF t = "track" THEN "current_user_saved_tracks_add"
    ELSE "current_user_saved_albums_add"

\* cmd_save (554-563, 571-578, 586, 597-601): the match on the item type.
cmd_save_call ==
    /\ pc = "dispatch" /\ command = "save"
    /\ CASE item_type \in {"track", "album"} ->
              /\ id_parses' = id_parses + ParsedCount(item_type, ids)
              /\ IF ValidateAll(item_type, ids)
                 THEN /\ StartCall(Call(SaveEndpoint(item_type), 0, 0, ids))
                      /\ pc' = "await_save"
                      /\ UNCHANGED <<exit_code, failures>>
                 ELSE Panic /\ UNCHANGED netVars
              /\ UNCHANGED stdout
         [] item_type = "playlist" ->
              /\ pc' = "save_loop"
              /\ UNCHANGED <<netVars, exit_code, stdout, failures, id_parses>>
         [] item_type = "artist" ->
              /\ stdout' = print_json(stdout,
                    [error |-> "saving artists is not supported; use 'follow' instead"])
              /\ Exit(0)
              /\ UNCHANGED <<netVars, failures, id_parses>>
    /\ UNCHANGED <<args, cfgVars, listVars, saveVars, response>>

\* cmd_save (564-569, 579-584): unwrap the save, print.
cmd_save_return ==
    /\ pc = "await_save"
    /\ EndCall
    /\ \/ Panic /\ UNCHANGED <<stdout, saved>>
       \/ /\ saved' = ids
          /\ stdout' = print_json(stdout,
                          [type |-> item_type, saved |-> Len(ids), ids |-> ids])
          /\ Exit(0)
          /\ UNCHANGED failures
    /\ UNCHANGED <<args, cfgVars, listVars, idx, followed, id_parses, response>>

\* As save_loop, but the follow is not awaited before the next turn.
save_loop_unawaited ==
    /\ pc = "save_loop"
    /\ IF SaveLoopDone(idx, ids)
       THEN /\ stdout' = print_json(stdout,
                          [type |-> "playlist", saved |-> Len(ids), ids |-> ids])
            /\ Exit(0)
            /\ UNCHANGED <<netVars, failures, id_parses, idx>>
       ELSE /\ id_parses' = id_parses + 1
            /\ UNCHANGED stdout
            /\ IF from_id_or_uri("playlist", ids[idx])
               THEN /\ StartCall(Call("playlist_follow", 0, 0, <<ids[idx]>>))
                    /\ idx' = idx + 1
                    /\ UNCHANGED <<pc, exit_code, failures>>
               ELSE Panic /\ UNCHANGED <<netVars, idx>>
    /\ UNCHANGED <<args, cfgVars, listVars, followed, saved, response>>

\* cmd_save (587-589, 591-595): one turn of the playlist loop, parse the id
\* and request the follow; after the last id, print.
save_loop ==
    /\ pc = "save_loop"
    /\ IF SaveLoopDone(idx, ids)
       THEN /\ stdout' = print_json(stdout,
                          [type |-> "playlist", saved |-> Len(ids), ids |-> ids])
            /\ Exit(0)
            /\ UNCHANGED <<netVars, failures, id_parses>>
       ELSE /\ id_parses' = id_parses + 1
            /\ UNCHANGED stdout
            /\ IF from_id_or_uri("playlist", ids[idx])
               THEN /\ StartCall(Call("playlist_follow", 0, 0, <<ids[idx]>>))
                    /\ pc' = "await_follow"
                    /\ UNCHANGED <<exit_code, failures>>
               ELSE Panic /\ UNCHANGED netVars
    /\ UNCHANGED <<args, cfgVars, listVars, saveVars, response>>

\* As playlist_follow_return, but a failed follow is skipped over.
playlist_follow_return_skips_error ==
    /\ pc = "await_follow"
    /\ EndCall
    /\ \/ /\ failures' = failures + 1
          /\ idx' = idx + 1
          /\ pc' = "save_loop"
          /\ UNCHANGED <<exit_code, followed>>
       \/ /\ followed' = Append(followed, ids[idx])
          /\ idx' = idx + 1
          /\ pc' = "save_loop"
          /\ UNCHANGED <<exit_code, failures>>
    /\ UNCHANGED <<args, cfgVars, listVars, saved, stdout, id_parses, response>>

\* cmd_save (589): unwrap the follow, go on to the next id.
playlist_follow_return ==
    /\ pc = "await_follow"
    /\ EndCall
    /\ \/ Panic /\ UNCHANGED <<idx, followed>>
       \/ /\ followed' = Append(followed, ids[idx])
          /\ idx' = idx + 1
          /\ pc' = "save_loop"
          /\ UNCHANGED <<exit_code, failures>>
    /\ UNCHANGED <<args, cfgVars, listVars, saved, stdout, id_parses, response>>

\* ------------------------------------------------------------------------
\* Specification
\* ------------------------------------------------------------------------
Next ==
    \/ main
    \/ cmd_configure
    \/ load_config
    \/ prompt_for_token_call
    \/ prompt_for_token_return
    \/ cmd_search_call
    \/ cmd_search_return
    \/ cmd_playlist_list_call
    \/ cmd_playlist_list_return
    \/ current_user_call
    \/ current_user_return
    \/ user_playlist_create_call
    \/ user_playlist_create_return
    \/ cmd_playlist_info_call
    \/ cmd_playlist_info_return
    \/ cmd_playlist_add_call
    \/ cmd_playlist_add_return
    \/ cmd_save_call
    \/ cmd_save_return
    \/ save_loop
    \/ playlist_follow_return

Spec == Init /\ [][Next]_vars


\* ------------------------------------------------------------------------
\* Vocabulary of the properties
\* ------------------------------------------------------------------------
Exited == pc = "exited"
Succeeded == Exited /\ exit_code = 0
JsonPrinted == \E i \in 1..Len(stdout) : stdout[i].kind = "json"
ErrorPrinted ==
    \E i \in 1..Len(stdout) :
        stdout[i].kind = "json" /\ "error" \in DOMAIN stdout[i].body
LastPrinted == stdout[Len(stdout)].body

\* ------------------------------------------------------------------------
\* C1
\* ------------------------------------------------------------------------
\* C1: whenever a command fails -- an unwrap met an error, or the command
\* printed an {"error": ..} object ('unsupported search type', 'saving
\* artists is not supported') -- the process exits with a non-zero status.
C1_FailureExitsNonZero ==
    (Exited /\ (failures >= 1 \/ ErrorPrinted)) => exit_code # 0


\* ------------------------------------------------------------------------
\* C2
\* ------------------------------------------------------------------------
\* C2, as stated: a search, list, create, show, add or save command that
\* completes with a result has issued exactly one remote endpoint call.
C2_ExactlyOneCall ==
    (Succeeded /\ command # "configure" /\ ~ErrorPrinted) => Len(calls) = 1

\* The endpoints a completed command has called, in order.
ExpectedEndpoints ==
    CASE command = "search" -> <<"search">>
      [] command = "playlist_info" -> <<"playlist">>
      [] command = "playlist_add" -> <<"playlist_add_items">>
      [] command = "playlist_create" -> <<"current_user", "user_playlist_create">>
      [] command = "playlist_list" ->
            [i \in 1..Len(pages) |-> "current_user_playlists"]
      [] command = "save" /\ item_type = "track" ->
            <<"current_user_saved_tracks_add">>
      [] command = "save" /\ item_type = "album" ->
            <<"current_user_saved_albums_add">>
      [] command = "save" /\ item_type = "playlist" ->
            [i \in 1..Len(ids) |-> "playlist_follow"]
      [] OTHER -> <<>>

\* C2, amended: a command that completes normally has issued exactly one
\* call for search, show playlist, add tracks and save of tracks or albums;
\* one call per result page for list playlists; two calls (current user,
\* then create) for create playlist; one follow call per id for save of
\* playlists; and none for save of artists.
C2_CallsPerCommand ==
    (Succeeded /\ command # "configure") =>
        /\ Len(calls) = Len(ExpectedEndpoints)
        /\ \A i \in 1..Len(calls) : calls[i].endpoint = ExpectedEndpoints[i]

C2_Witness ==
    /\ Succeeded
    /\ command = "save" /\ item_type = "playlist"
    /\ Len(ids) >= 2
    /\ Len(calls) = Len(ids)

\* ------------------------------------------------------------------------
\* C3
\* ------------------------------------------------------------------------
\* C3: once a remote call or an id parse has failed the process is over,
\* with the panic status, exactly one failure and no JSON on standard
\* output; and from a state with a failure no step starts another call
\* (a retry included) or prints anything.
C3_CrashOnFirstFailure ==
    /\ [](failures >= 1 =>
            /\ Exited
            /\ exit_code = PANIC_EXIT
            /\ failures = 1
            /\ outstanding = 0
            /\ ~JsonPrinted)
    /\ [][failures >= 1 =>
            /\ calls' = calls
            /\ token_calls' = token_calls
            /\ stdout' = stdout]_vars

C3_Witness ==
    /\ Exited /\ failures = 1
    /\ command = "save" /\ item_type = "playlist"
    /\ Len(followed) = 1 /\ Len(calls) = 2 /\ Len(ids) > 2

\* ------------------------------------------------------------------------
\* C4
\* ------------------------------------------------------------------------
\* C4: at most one network call (token request or API request) is
\* outstanding at any time, and a call is started only when none is
\* outstanding.
C4_OneCallAtATime ==
    /\ [](outstanding \in {0, 1})
    /\ [][(calls' # calls \/ token_calls' # token_calls) =>
            (outstanding = 0 /\ outstanding' = 1)]_vars

C4_Witness ==
    /\ command = "save" /\ item_type = "playlist"
    /\ outstanding = 1
    /\ Len(calls) = 3
    /\ token_calls = 1

\* ------------------------------------------------------------------------
\* C5
\* ------------------------------------------------------------------------
\* C5: after a track search whose response page holds N items, the printed
\* object's items array has N entries and the i-th entry carries the name of
\* the i-th response item.
C5_TrackSearchItems ==
    (command = "search" /\ Succeeded /\ response.variant = "tracks") =>
        /\ Len(LastPrinted.items) = Len(response.items)
        /\ \A i \in 1..Len(response.items) :
              LastPrinted.items[i].name = response.items[i].name

C5_Witness ==
    /\ command = "search" /\ Succeeded /\ response.variant = "tracks"
    /\ Len(response.items) = 2
    /\ response.items[1].name # response.items[2].name
    /\ ~response.items[1].id.some
    /\ Len(LastPrinted.items) = 2

\* ------------------------------------------------------------------------
\* C6
\* ------------------------------------------------------------------------
\* C6: the configuration file's contents are read at most once in a run; it
\* is written only by the configure command, or by another command that
\* found no file; a command other than configure that found a file leaves
\* it as it was.
C6_ConfigFileFrame ==
    /\ cfg_reads <= 1
    /\ \A i \in 1..Len(cfg_writes) :
          \/ cfg_writes[i] = "cmd_configure" /\ command = "configure"
          \/ /\ cfg_writes[i] = "load_config"
             /\ command # "configure"
             /\ ~FileExists(cfg_file0)
    /\ (cfg_writes = <<>>) => (cfg_file = cfg_file0)
    /\ (command # "configure" /\ FileExists(cfg_file0)) =>
          (cfg_file = cfg_file0 /\ cfg_writes = <<>>)

C6_Witness ==
    /\ Exited
    /\ command = "save"
    /\ cfg_file0 = TomlFile(<<>>, <<"a">>, None)
    /\ cfg_file = cfg_file0
    /\ cfg_reads = 1

\* ------------------------------------------------------------------------
\* C7
\* ------------------------------------------------------------------------
\* Authentication is complete: load_config returned credentials and a token
\* is at hand, with no token request still under way.
AuthDone ==
    /\ ~CredentialsMissing(app)
    /\ token_cache = "valid"
    /\ pc \notin {"main", "authenticate", "prompt_for_token", "await_token"}

\* C7: the configure command never loads credentials, requests a token or
\* calls the API; any other command has completed authentication before it
\* parses an id argument or starts an API call.
C7_AuthBeforeWork ==
    /\ (command = "configure") =>
          /\ token_calls = 0
          /\ calls = <<>>
          /\ outstanding = 0
          /\ app = NoConfig
          /\ pc \in {"main", "cmd_configure", "exited"}
    /\ (command # "configure" /\ (calls # <<>> \/ id_parses > 0)) => AuthDone

C7_Witness ==
    /\ command = "playlist_add"
    /\ token_calls = 1
    /\ id_parses = 1 + Len(ids)
    /\ Len(calls) = 1
    /\ AuthDone

\* ------------------------------------------------------------------------
\* C8
\* ------------------------------------------------------------------------
RECURSIVE AllItems(_)
AllItems(ps) ==
    IF ps = <<>> THEN <<>> ELSE Head(ps).items \o AllItems(Tail(ps))

\* C8: playlist list requests pages with limit 50 at offsets 0, 50, 100, ..
\* in that order; it goes on exactly past pages that carry a next link and
\* completes on the first page without one; what it then prints is the
\* concatenation, in request order, of the items of the fetched pages, with
\* total the length of that array.
C8_PlaylistPaging ==
    (command = "playlist_list") =>
        /\ \A i \in 1..Len(calls) :
              /\ calls[i].endpoint = "current_user_playlists"
              /\ calls[i].limit = 50
              /\ calls[i].offset = 50 * (i - 1)
        /\ Len(calls) - Len(pages) \in {0, 1}
        /\ \A i \in 1..(Len(pages) - 1) : pages[i].next
        /\ (pages # <<>> /\ pages[Len(pages)].next /\ failures = 0) => ~Exited
        /\ (pages # <<>> /\ ~pages[Len(pages)].next) =>
              /\ Succeeded
              /\ Len(calls) = Len(pages)
              /\ Len(stdout) = 1
              /\ LastPrinted.total = Len(AllItems(pages))
              /\ Len(LastPrinted.playlists) = Len(AllItems(pages))
              /\ \A i \in 1..Len(AllItems(pages)) :
                    /\ LastPrinted.playlists[i].id = AllItems(pages)[i].id
                    /\ LastPrinted.playlists[i].name = AllItems(pages)[i].name
        /\ Succeeded => (pages # <<>> /\ ~pages[Len(pages)].next)

C8_Witness ==
    /\ command = "playlist_list" /\ Succeeded
    /\ Len(pages) = 3
    /\ calls[3].offset = 100
    /\ pages[1].items = <<>>
    /\ Len(pages[2].items) = 2
    /\ Len(pages[3].items) = 1
    /\ LastPrinted.total = 3

\* ------------------------------------------------------------------------
\* C9
\* ------------------------------------------------------------------------
\* The run found no usable credentials: no file, or a file that parses with
\* an empty client id or an empty client secret.
UnusableCredentials ==
    \/ ~FileExists(cfg_file0)
    \/ /\ ParseConfig(cfg_file0).ok
       /\ \/ ParseConfig(cfg_file0).config.client_id = <<>>
          \/ ParseConfig(cfg_file0).config.client_secret = <<>>

\* C9: a command other than configure that finds no usable credentials
\* never requests a token or calls the API and prints nothing to standard
\* output; it ends with status 1, having written the template when there
\* was no file.
C9_NoCallWithoutCredentials ==
    (command # "configure" /\ UnusableCredentials) =>
        /\ token_calls = 0
        /\ calls = <<>>
        /\ outstanding = 0
        /\ stdout = <<>>
        /\ pc \in {"main", "authenticate", "exited"}
        /\ Exited =>
              /\ exit_code = 1
              /\ IF FileExists(cfg_file0)
                 THEN cfg_file = cfg_file0
                 ELSE cfg_file = TemplateFile

C9_Witness ==
    /\ command = "playlist_list"
    /\ cfg_file0 = MissingFile
    /\ Exited /\ exit_code = 1
    /\ cfg_file = TemplateFile
    /\ token_cache = "valid"

\* ------------------------------------------------------------------------
\* C10
\* ------------------------------------------------------------------------
\* C10: save of tracks or albums parses every id before its single call, so
\* with an invalid id at any position nothing is called or saved; save of
\* playlists parses and follows the ids one at a time in argument order, so
\* when the k-th id is invalid or its follow fails exactly the first k-1
\* playlists have been followed and nothing is printed.
C10_SaveValidationOrder ==
    (command = "save") =>
        /\ (item_type \in {"track", "album"}) =>
              /\ ~AllValid(item_type, ids) => (calls = <<>> /\ saved = <<>>)
              /\ Len(calls) <= 1
              /\ calls # <<>> => (id_parses = Len(ids) /\ calls[1].arg = ids)
              /\ saved \in {<<>>, ids}
        /\ (item_type = "playlist") =>
              /\ Len(followed) <= Len(ids)
              /\ followed = SubSeq(ids, 1, Len(followed))
              /\ \A i \in 1..Len(calls) : calls[i].arg = <<ids[i]>>
              /\ id_parses = Len(calls) \/ id_parses = Len(calls) + 1
              /\ (failures >= 1 /\ id_parses >= 1) =>
                    /\ idx \in 1..Len(ids)
                    /\ id_parses = idx
                    /\ Len(followed) = idx - 1
                    /\ \/ ~from_id_or_uri("playlist", ids[idx])
                             /\ Len(calls) = idx - 1
                       \/ from_id_or_uri("playlist", ids[idx])
                             /\ Len(calls) = idx
                    /\ ~JsonPrinted

C10_Witness ==
    /\ command = "save" /\ item_type = "playlist"
    /\ Exited /\ failures = 1
    /\ idx = 3
    /\ ~from_id_or_uri("playlist", ids[3])
    /\ followed = <<ids[1], ids[2]>>
    /\ ids[1] # ids[2]
    /\ stdout = <<>>

\* ------------------------------------------------------------------------
\* C11
\* ------------------------------------------------------------------------
\* A typed line with nothing in it but blanks.
Blank(line) == \A i \in 1..Len(line) : line[i] = " "

\* A typed line without its leading and trailing blanks.
Stripped(line) ==
    LET inked == {i \in 1..Len(line) : line[i] # " "} IN
    IF inked = {} THEN <<>>
    ELSE SubSeq(line,
                CHOOSE i \in inked : \A j \in inked : i <= j,
                CHOOSE i \in inked : \A j \in inked : j <= i)

\* The file the run found, where it is a readable configuration.
Found == ParseConfig(cfg_file0)

\* What the claim says each prompt yields.
ChosenId ==
    IF ~Blank(typed[1]) THEN Stripped(typed[1])
    ELSE IF Found.ok THEN Found.config.client_id ELSE <<>>
ChosenSecret ==
    IF ~Blank(typed[2]) THEN Stripped(typed[2])
    ELSE IF Found.ok THEN Found.config.client_secret ELSE <<>>
ChosenRedirect ==
    IF ~Blank(typed[3]) THEN Stripped(typed[3])
    ELSE IF Found.ok /\ Found.config.redirect_uri.some
         THEN Found.config.redirect_uri.val
         ELSE <<"http://127.0.0.1:8888/callback">>

\* C11: in configure an empty answer takes the default (the found file's
\* client id and secret when not empty; the found redirect URI, or else
\* http://127.0.0.1:8888/callback); when the resulting client id or secret
\* is empty the command exits with status 1 and the file is as it was, not
\* created and not modified; otherwise the file is written once, with the
\* three resulting values.
C11_ConfigureDefaults ==
    (command = "configure" /\ Exited) =>
        /\ Len(typed) = 3
        /\ IF ChosenId = <<>> \/ ChosenSecret = <<>>
           THEN /\ exit_code = 1
                /\ cfg_file = cfg_file0
                /\ cfg_writes = <<>>
           ELSE /\ exit_code = 0
                /\ cfg_writes = <<"cmd_configure">>
                /\ cfg_file.kind = "toml"
                /\ cfg_file.client_id = ChosenId
                /\ cfg_file.client_secret = ChosenSecret
                /\ cfg_file.redirect_uri = Some(ChosenRedirect)

C11_Witness ==
    /\ command = "configure" /\ Exited
    /\ cfg_file0 = TomlFile(<<"a">>, <<>>, None)
    /\ typed = << <<" ">>, <<>>, <<>> >>
    /\ ChosenId = <<"a">>
    /\ exit_code = 1
    /\ cfg_file = cfg_file0

====
